---------------------------- MODULE Spec2Model ----------------------------
(***************************************************************************)
(* A model of backend/app.py: the /analyze and /convert request handlers,   *)
(* the toxicity classifier wrapper predict_toxicity, the chart renderer     *)
(* generate_toxicity_plot and the pyplot state the renderer works on.       *)
(*                                                                          *)
(* Python values are tagged records (field t), so that values of different  *)
(* Python types can be compared.  A probability is an integer numerator     *)
(* over One = 2^GridBits: every such value is exactly representable as a    *)
(* binary float, so the comparison with 0.5 and the two-decimal formatting  *)
(* are computed exactly as Python computes them.                            *)
(***************************************************************************)
EXTENDS Integers, Sequences, FiniteSets, TLC

(***************************************************************************)
(* Bounds of the model and constants of the program                         *)
(***************************************************************************)

\* Probabilities are the multiples of 1 / 2^GridBits in [0, 1].
GridBits == 8

\* model = dc.models.GraphConvModel(n_tasks=12, ...); the 12 endpoint names.
NumTasks == 12

RECURSIVE Pow2(_)
Pow2(n) == IF n = 0 THEN 1 ELSE 2 * Pow2(n - 1)

One == Pow2(GridBits)

Half == One \div 2

Grid == 0 .. One

\* Python's None.
None == [t |-> "None"]

\* A Python str, by its content.
Str(s) == [t |-> "str", s |-> s]

(***************************************************************************)
(* predict_toxicity                                                         *)
(***************************************************************************)

endpoints ==
    << "NR-AR", "NR-AR-LBD", "NR-AhR", "NR-Aromatase", "NR-ER",
       "NR-ER-LBD", "NR-PPAR-gamma", "SR-ARE", "SR-ATAD5",
       "SR-HSE", "SR-MMP", "SR-p53" >>

\* Mutant of ToxicityLabel: the threshold test written >= instead of >.
ToxicityLabelGe(p) == IF 2 * p >= One THEN "Toxic" ELSE "Non-Toxic"

\* "Toxic" if predictions[0, i, 1] > 0.5 else "Non-Toxic"
ToxicityLabel(p) == IF 2 * p > One THEN "Toxic" ELSE "Non-Toxic"

\* The value p / One rounded to hundredths the way Python's format rounds
\* an exactly represented float: to nearest, an exact tie to the even digit.
RoundHundredths(p) ==
    LET q == (p * 100) \div One
        r == (p * 100) % One
    IN  IF 2 * r > One THEN q + 1
        ELSE IF 2 * r < One THEN q
        ELSE IF q % 2 = 0 THEN q ELSE q + 1

\* The text "d.dd" of c hundredths, as its three digits.
Digits(c) == << c \div 100, (c \div 10) % 10, c % 10 >>

\* f"{confidence:.2f}"
Format2f(p) == Digits(RoundHundredths(p))

\* float("d.dd"), in hundredths.
ParseFloat(d) == 100 * d[1] + 10 * d[2] + d[3]

\* The dictionary results after the first n iterations of the loop, as the
\* sequence of its items in insertion order.
ResultsUpTo(preds, n) ==
    [i \in 1 .. n |->
        [key   |-> endpoints[i],
         value |-> [t          |-> "dict",
                    prediction |-> ToxicityLabel(preds[i]),
                    confidence |-> Format2f(preds[i])]]]

\* {"Error": f"Prediction error: {str(e)}"}; at is where the exception rose
\* (0: in featurize or predict, i: in iteration i of the loop).
ErrorMarker(at) ==
    << [key |-> "Error", value |-> [t |-> "str", s |-> "Prediction error", at |-> at]] >>

\* Mutant of predict_toxicity: the handler returns what the loop had built.
predict_toxicity_partial(preds, raiseAt) ==
    IF raiseAt = 0 THEN << ErrorMarker(0), Str("") >>
    ELSE IF raiseAt <= NumTasks
    THEN << ResultsUpTo(preds, raiseAt - 1), Str("") >>
    ELSE << ResultsUpTo(preds, NumTasks),
            [t |-> "str", s |-> "toxicity", of |-> ResultsUpTo(preds, NumTasks)] >>

\* predict_toxicity(smiles): preds is predictions[0, :, 1] of the model and
\* raiseAt the place in the try block where an exception rises
\* (NumTasks + 1: nowhere).  Returns the pair (results, explanation).
predict_toxicity(preds, raiseAt) ==
    IF raiseAt <= NumTasks
    THEN << ErrorMarker(raiseAt), Str("") >>
    ELSE << ResultsUpTo(preds, NumTasks),
            [t |-> "str", s |-> "toxicity", of |-> ResultsUpTo(preds, NumTasks)] >>

(***************************************************************************)
(* matplotlib.pyplot: the figures of the process and the current figure     *)
(***************************************************************************)

\* pyplot's figure registry: figs maps a figure number to what is drawn on
\* it, order lists the numbers oldest first, and the last one is the
\* current figure every plt.* call works on.
EmptyPyplot == [figs |-> << >>, order |-> << >>]

EmptyFigure == [bars |-> << >>, texts |-> << >>]

RECURSIVE MaxOf(_)
MaxOf(s) == IF Len(s) = 1 THEN s[1]
            ELSE LET m == MaxOf(Tail(s)) IN IF s[1] > m THEN s[1] ELSE m

\* plt.figure(): a new figure, numbered one past the largest, made current.
plt_figure(G) ==
    LET n == IF G.order = << >> THEN 1 ELSE MaxOf(G.order) + 1
    IN  [figs |-> G.figs @@ (n :> EmptyFigure), order |-> Append(G.order, n)]

\* plt.gcf(): the current figure, created when there is none.
plt_gcf(G) == IF G.order = << >> THEN plt_figure(G) ELSE G

Current(G) == G.order[Len(G.order)]

\* plt.bar(endpoints, confidences): the bars go on the current figure.
plt_bar(G, bars) ==
    LET H == plt_gcf(G)
    IN  [H EXCEPT !.figs[Current(H)].bars = @ \o bars]

\* The loop of plt.text calls: the labels go on the current figure.
plt_text(G, texts) ==
    LET H == plt_gcf(G)
    IN  [H EXCEPT !.figs[Current(H)].texts = @ \o texts]

\* plt.savefig(buf, ...) and the base64 encoding of buf: the picture of
\* the current figure.
SavedImage(G) ==
    LET H == plt_gcf(G)
    IN  [t |-> "png", bars |-> H.figs[Current(H)].bars,
         texts |-> H.figs[Current(H)].texts]

\* plt.close(): the current figure is destroyed, if there is one.
plt_close(G) ==
    IF G.order = << >> THEN G
    ELSE LET n    == Current(G)
             keep == {m \in DOMAIN G.figs : m # n}
         IN  [figs  |-> [m \in keep |-> G.figs[m]],
              order |-> SubSeq(G.order, 1, Len(G.order) - 1)]

(***************************************************************************)
(* generate_toxicity_plot                                                   *)
(***************************************************************************)

\* toxicity_results[endpoint]['confidence'] raises when the value is a str.
ConfidencesRaise(toxicity_results) ==
    \E i \in 1 .. Len(toxicity_results) : toxicity_results[i].value.t # "dict"

\* endpoints and confidences, as the bars plt.bar draws from them.
BarsOf(toxicity_results) ==
    [i \in 1 .. Len(toxicity_results) |->
        [x      |-> toxicity_results[i].key,
         height |-> ParseFloat(toxicity_results[i].value.confidence)]]

\* f'{height:.2f}' for each bar, in the order of the bars.
TextsOf(bars) == [i \in 1 .. Len(bars) |-> Digits(bars[i].height)]

\* generate_toxicity_plot(toxicity_results) when no other call interleaves
\* with it: drawRaises says whether a drawing call raises.  Returns the
\* encoded chart, or None.
generate_toxicity_plot(toxicity_results, drawRaises) ==
    IF ConfidencesRaise(toxicity_results) \/ drawRaises
    THEN None
    ELSE LET bars == BarsOf(toxicity_results)
             G1   == plt_figure(EmptyPyplot)
             G2   == plt_bar(G1, bars)
             G3   == plt_text(G2, TextsOf(bars))
         IN  SavedImage(G3)

(***************************************************************************)
(* RDKit parsing and the per-molecule stages of /analyze                    *)
(***************************************************************************)

\* A key the request's JSON object does not have.
Absent == [t |-> "Absent"]

\* data.get(key, default)
DataGet(value, default) == IF value = Absent THEN default ELSE value

\* Python truth of a request value: None and "" are false.
Truthy(v) == v.t = "str" /\ v.s # ""

\* The SMILES strings RDKit can parse into a molecule with atoms.
ValidSmiles == {"CCO", "c1ccccc1"}

\* Chem.MolFromSmiles(smiles): raises on a non-string, returns the empty
\* molecule for "", None for a string it cannot parse.
MolFromSmiles(smiles) ==
    IF smiles.t # "str" THEN [t |-> "raise"]
    ELSE IF smiles.s = "" THEN [t |-> "Mol", smiles |-> "", conformers |-> 0]
    ELSE IF smiles.s \in ValidSmiles
    THEN [t |-> "Mol", smiles |-> smiles.s, conformers |-> 0]
    ELSE None

\* get_molecule_properties(smiles): returns (properties, explanation).
get_molecule_properties(smiles, raises) ==
    LET mol == MolFromSmiles(smiles)
    IN  IF mol.t = "raise" THEN << None, Str("TypeError") >>
        ELSE IF mol = None THEN << None, Str("Invalid SMILES string") >>
        ELSE IF raises THEN << None, Str("Exception") >>
        ELSE << [t |-> "dict", descriptors_of |-> mol.smiles],
                [t |-> "str", s |-> "properties", of |-> mol.smiles] >>

\* generate_molecule_image(smiles): the encoded PNG, or None.
generate_molecule_image(smiles, raises) ==
    LET mol == MolFromSmiles(smiles)
    IN  IF mol.t = "raise" \/ mol = None \/ raises THEN None
        ELSE [t |-> "png", of |-> mol.smiles]

\* generate_2d_structure(smiles): the data URI of the SVG, or None.
generate_2d_structure(smiles, raises) ==
    LET mol == MolFromSmiles(smiles)
    IN  IF mol.t = "raise" \/ mol = None \/ raises THEN None
        ELSE [t |-> "svg", of |-> mol.smiles]

\* query_gemini(...): the service's text, or "Error: ..." when it fails.
query_gemini(prompt_, smiles_, properties_explanation, toxicity_explanation, fails) ==
    IF fails THEN [t |-> "str", s |-> "Error"]
    ELSE [t |-> "str", s |-> "answer",
          context |-> << smiles_, properties_explanation, toxicity_explanation, prompt_ >>]

\* Mutant of PromptGiven: the service is queried whatever the prompt.
PromptGivenAlways(prompt_) == TRUE

\* if prompt:
PromptGiven(prompt_) == Truthy(prompt_)

(***************************************************************************)
(* State                                                                    *)
(***************************************************************************)

VARIABLES
    pc,                \* the handler's position
    request,           \* the request: its JSON object, or NoJson
    smiles,            \* analyze, convert: smiles
    prompt,            \* analyze: prompt
    properties,        \* analyze: properties
    prop_explanation,  \* analyze: prop_explanation
    predictions,       \* predict_toxicity: predictions[0, :, 1]
    toxicity,          \* analyze: toxicity
    tox_explanation,   \* analyze: tox_explanation
    image_base64,      \* analyze: image_base64
    molecule_image_2d, \* analyze: molecule_image_2d
    toxicity_plot,     \* analyze: toxicity_plot
    gemini_response,   \* analyze: gemini_response
    response,          \* the response returned: [status, body]
    stages,            \* history: the stages entered, in order
    failed,            \* history: the stages that failed
    gemini_calls,      \* history: the calls of query_gemini
    mol,               \* convert_smiles_to_mol: mol
    rdkit_calls,       \* history: the RDKit calls of /convert and their results
    pyplot,            \* matplotlib.pyplot's figures, shared by all threads
    threads            \* the threads running generate_toxicity_plot

locals ==
    << smiles, prompt, properties, prop_explanation, predictions, toxicity,
       tox_explanation, image_base64, molecule_image_2d, toxicity_plot,
       gemini_response >>

history == << stages, failed, gemini_calls >>

plotting == << pyplot, threads >>

vars == << pc, request, locals, response, history, mol, rdkit_calls, plotting >>

\* The threads that may run generate_toxicity_plot at the same time.
NumThreads == 2

Threads == 1 .. NumThreads

\* A request whose body is no JSON object.
NoJson == [t |-> "NoJson"]

SmilesInputs ==
    {Absent, None, Str(""), Str("not_a_smiles"), Str("CCO"), Str("c1ccccc1")}

PromptInputs == {Absent, None, Str(""), Str("Why is it toxic?")}

Requests ==
    {NoJson} \cup
    { [t |-> "json", smiles |-> s, prompt |-> p] :
        s \in SmilesInputs, p \in PromptInputs }

\* Before a handler runs nothing is assigned and nothing has happened.
Unassigned ==
    /\ smiles = None
    /\ prompt = None
    /\ properties = None
    /\ prop_explanation = Str("")
    /\ toxicity = << >>
    /\ tox_explanation = Str("")
    /\ image_base64 = None
    /\ molecule_image_2d = None
    /\ toxicity_plot = None
    /\ gemini_response = Str("")
    /\ response = None
    /\ stages = << >>
    /\ failed = {}
    /\ gemini_calls = 0
    /\ mol = None
    /\ rdkit_calls = << >>

\* No thread is drawing and pyplot holds no figure.
NoPlotting ==
    /\ pyplot = EmptyPyplot
    /\ threads = [t \in Threads |-> [pc |-> "idle"]]

\* jsonify(body), status
Response(status, body) == [status |-> status, body |-> body]

(***************************************************************************)
(* /analyze                                                                 *)
(***************************************************************************)

\* The classifier's outputs tried in /analyze.
AnalyzePredictions ==
    { [i \in 1 .. NumTasks |-> IF i = 1 THEN p ELSE 0] :
        p \in {0, Half, Half + 1, One} }

Init ==
    /\ pc = "analyze"
    /\ request \in Requests
    /\ predictions = << >>
    /\ Unassigned
    /\ NoPlotting

\* data = request.get_json(); smiles = data.get("smiles");
\* prompt = data.get("prompt", "").  Without a JSON object the request ends
\* in an error response of Flask's.
AnalyzeGetJson ==
    /\ UNCHANGED << mol, rdkit_calls, plotting >>
    /\ pc = "analyze"
    /\ stages' = Append(stages, "Parsing")
    /\ IF request = NoJson
       THEN /\ \E status \in {400, 415, 500} :
                  response' = Response(status, [error |-> Str("Bad Request")])
            /\ pc' = "done"
            /\ UNCHANGED << locals >>
       ELSE /\ smiles' = DataGet(request.smiles, None)
            /\ prompt' = DataGet(request.prompt, Str(""))
            /\ pc' = "properties"
            /\ UNCHANGED << properties, prop_explanation, predictions, toxicity,
                            tox_explanation, image_base64, molecule_image_2d,
                            toxicity_plot, gemini_response, response >>
    /\ UNCHANGED << request, failed, gemini_calls >>

\* properties, prop_explanation = get_molecule_properties(smiles)
AnalyzeProperties ==
    /\ UNCHANGED << mol, rdkit_calls, plotting >>
    /\ pc = "properties"
    /\ \E raises \in BOOLEAN :
          LET r == get_molecule_properties(smiles, raises)
          IN  /\ properties' = r[1]
              /\ prop_explanation' = r[2]
              /\ failed' = IF r[1] = None THEN failed \cup {"descriptors"} ELSE failed
    /\ stages' = Append(stages, "ComputingDescriptors")
    /\ pc' = "toxicity"
    /\ UNCHANGED << request, smiles, prompt, predictions, toxicity, tox_explanation,
                    image_base64, molecule_image_2d, toxicity_plot,
                    gemini_response, response, gemini_calls >>

\* Where predict_toxicity can raise: anywhere for a molecule, and in the
\* featurizer or the model for an input that is no molecule.
RaisePlaces(smiles_) ==
    IF MolFromSmiles(smiles_).t = "Mol" THEN 0 .. NumTasks + 1 ELSE {0}

\* toxicity, tox_explanation = predict_toxicity(smiles)
AnalyzeToxicity ==
    /\ UNCHANGED << mol, rdkit_calls, plotting >>
    /\ pc = "toxicity"
    /\ \E preds \in AnalyzePredictions, raiseAt \in RaisePlaces(smiles) :
          LET r == predict_toxicity(preds, raiseAt)
          IN  /\ predictions' = preds
              /\ toxicity' = r[1]
              /\ tox_explanation' = r[2]
              /\ failed' = IF raiseAt <= NumTasks
                           THEN failed \cup {"toxicity"} ELSE failed
    /\ stages' = Append(stages, "ClassifyingToxicity")
    /\ pc' = "image"
    /\ UNCHANGED << request, smiles, prompt, properties, prop_explanation,
                    image_base64, molecule_image_2d, toxicity_plot,
                    gemini_response, response, gemini_calls >>

\* image_base64 = generate_molecule_image(smiles)
AnalyzeImage ==
    /\ UNCHANGED << mol, rdkit_calls, plotting >>
    /\ pc = "image"
    /\ \E raises \in BOOLEAN :
          /\ image_base64' = generate_molecule_image(smiles, raises)
          /\ failed' = IF generate_molecule_image(smiles, raises) = None
                       THEN failed \cup {"image"} ELSE failed
    /\ stages' = Append(stages, "Rendering")
    /\ pc' = "image_2d"
    /\ UNCHANGED << request, smiles, prompt, properties, prop_explanation,
                    predictions, toxicity, tox_explanation, molecule_image_2d,
                    toxicity_plot, gemini_response, response, gemini_calls >>

\* molecule_image_2d = generate_2d_structure(smiles)
AnalyzeImage2d ==
    /\ UNCHANGED << mol, rdkit_calls, plotting >>
    /\ pc = "image_2d"
    /\ \E raises \in BOOLEAN :
          /\ molecule_image_2d' = generate_2d_structure(smiles, raises)
          /\ failed' = IF generate_2d_structure(smiles, raises) = None
                       THEN failed \cup {"image_2d"} ELSE failed
    /\ pc' = "plot"
    /\ UNCHANGED << request, smiles, prompt, properties, prop_explanation,
                    predictions, toxicity, tox_explanation, image_base64,
                    toxicity_plot, gemini_response, response, stages,
                    gemini_calls >>

\* toxicity_plot = generate_toxicity_plot(toxicity)
AnalyzePlot ==
    /\ UNCHANGED << mol, rdkit_calls, plotting >>
    /\ pc = "plot"
    /\ \E drawRaises \in BOOLEAN :
          /\ toxicity_plot' = generate_toxicity_plot(toxicity, drawRaises)
          /\ failed' = IF generate_toxicity_plot(toxicity, drawRaises) = None
                       THEN failed \cup {"chart"} ELSE failed
    /\ pc' = "gemini"
    /\ UNCHANGED << request, smiles, prompt, properties, prop_explanation,
                    predictions, toxicity, tox_explanation, image_base64,
                    molecule_image_2d, gemini_response, response, stages,
                    gemini_calls >>

\* gemini_response = ""; if prompt: gemini_response = query_gemini(...)
AnalyzeGemini ==
    /\ UNCHANGED << mol, rdkit_calls, plotting >>
    /\ pc = "gemini"
    /\ IF PromptGiven(prompt)
       THEN \E fails \in BOOLEAN :
               /\ gemini_response' =
                     query_gemini(prompt, smiles, prop_explanation,
                                  tox_explanation, fails)
               /\ gemini_calls' = gemini_calls + 1
               /\ failed' = IF fails THEN failed \cup {"explanation"} ELSE failed
       ELSE /\ gemini_response' = Str("")
            /\ UNCHANGED << gemini_calls, failed >>
    /\ stages' = Append(stages, "Assembling")
    /\ pc' = "respond"
    /\ UNCHANGED << request, smiles, prompt, properties, prop_explanation,
                    predictions, toxicity, tox_explanation, image_base64,
                    molecule_image_2d, toxicity_plot, response >>

\* return jsonify({...}): the body of the response of /analyze.
AnalyzeBody ==
    [properties      |-> properties,
     toxicity        |-> toxicity,
     molecule_image  |-> image_base64,
     gemini_response |-> gemini_response]

AnalyzeRespond ==
    /\ UNCHANGED << mol, rdkit_calls, plotting >>
    /\ pc = "respond"
    /\ response' = Response(200, AnalyzeBody)
    /\ stages' = Append(stages, "Done")
    /\ pc' = "done"
    /\ UNCHANGED << request, locals, failed, gemini_calls >>

Next ==
    \/ AnalyzeGetJson
    \/ AnalyzeProperties
    \/ AnalyzeToxicity
    \/ AnalyzeImage
    \/ AnalyzeImage2d
    \/ AnalyzePlot
    \/ AnalyzeGemini
    \/ AnalyzeRespond

Spec == Init /\ [][Next]_vars

(***************************************************************************)
(* SpecTox: predict_toxicity and generate_toxicity_plot on one molecule     *)
(***************************************************************************)

\* The probability every endpoint but one is given.
Background == {0, Half}

\* The classifier's outputs tried: one endpoint k with any probability of
\* the grid, the others with a background probability.
PredictionInputs ==
    { [i \in 1 .. NumTasks |-> IF i = k THEN p ELSE q] :
        k \in 1 .. NumTasks, p \in Grid, q \in Background }

ToxInit ==
    /\ pc = "predict_toxicity"
    /\ request = NoJson
    /\ predictions \in PredictionInputs
    /\ Unassigned
    /\ NoPlotting

ToxPredict ==
    /\ UNCHANGED << mol, rdkit_calls, plotting >>
    /\ pc = "predict_toxicity"
    /\ \E raiseAt \in 0 .. NumTasks + 1 :
          /\ toxicity' = predict_toxicity(predictions, raiseAt)[1]
          /\ tox_explanation' = predict_toxicity(predictions, raiseAt)[2]
    /\ pc' = "generate_toxicity_plot"
    /\ UNCHANGED << request, smiles, prompt, properties, prop_explanation,
                    predictions, image_base64, molecule_image_2d, toxicity_plot,
                    gemini_response, response, history >>

ToxPlot ==
    /\ UNCHANGED << mol, rdkit_calls, plotting >>
    /\ pc = "generate_toxicity_plot"
    /\ \E drawRaises \in BOOLEAN :
          toxicity_plot' = generate_toxicity_plot(toxicity, drawRaises)
    /\ pc' = "plotted"
    /\ UNCHANGED << request, smiles, prompt, properties, prop_explanation,
                    predictions, toxicity, tox_explanation, image_base64,
                    molecule_image_2d, gemini_response, response, history >>

ToxNext == ToxPredict \/ ToxPlot

SpecTox == ToxInit /\ [][ToxNext]_vars

(***************************************************************************)
(* Properties of predict_toxicity and generate_toxicity_plot (SpecTox)      *)
(***************************************************************************)

\* A dictionary of endpoint entries, as opposed to an error marker.
IsProfile(results) ==
    /\ Len(results) > 0
    /\ \A i \in 1 .. Len(results) : results[i].value.t = "dict"

IsErrorMarker(results) ==
    /\ Len(results) = 1
    /\ results[1].key = "Error"
    /\ results[1].value.t = "str"

Distance(a, b) == IF a >= b THEN a - b ELSE b - a

\* C3, as stated: in every profile predict_toxicity returns, each reported
\* confidence lies in [0, 1] and the label is Toxic exactly when the
\* reported confidence is greater than 0.5.
C3_LabelIffReportedAboveHalf ==
    (pc # "predict_toxicity" /\ IsProfile(toxicity)) =>
        \A i \in 1 .. Len(toxicity) :
            LET c == ParseFloat(toxicity[i].value.confidence)
            IN  /\ c \in 0 .. 100
                /\ (toxicity[i].value.prediction = "Toxic") <=> (c > 50)

\* C3, amended: each reported confidence lies in [0, 1] and is the raw
\* probability rounded to two decimals; the label is Toxic exactly when
\* the raw probability is greater than 0.5, so a raw 0.5 is Non-Toxic, a
\* reported confidence above 0.50 is Toxic and one below 0.50 Non-Toxic
\* (a reported 0.50 goes with either label).
C3_LabelIffRawAboveHalf ==
    (pc # "predict_toxicity" /\ IsProfile(toxicity)) =>
        \A i \in 1 .. Len(toxicity) :
            LET c     == ParseFloat(toxicity[i].value.confidence)
                toxic == toxicity[i].value.prediction = "Toxic"
            IN  /\ c \in 0 .. 100
                /\ 2 * Distance(100 * predictions[i], c * One) <= One
                /\ toxicity[i].value.prediction \in {"Toxic", "Non-Toxic"}
                /\ toxic <=> (2 * predictions[i] > One)
                /\ (c > 50) => toxic
                /\ (c < 50) => ~toxic

\* C3, witness: a profile with an endpoint of raw probability exactly 0.5,
\* reported 0.50 and Non-Toxic, and one just above 0.5, reported 0.50 too
\* and Toxic.
C3_Witness ==
    /\ pc # "predict_toxicity"
    /\ IsProfile(toxicity)
    /\ \E i, j \in 1 .. Len(toxicity) :
          /\ predictions[i] = Half
          /\ toxicity[i].value = [t |-> "dict", prediction |-> "Non-Toxic",
                                  confidence |-> << 0, 5, 0 >>]
          /\ predictions[j] = Half + 1
          /\ toxicity[j].value = [t |-> "dict", prediction |-> "Toxic",
                                  confidence |-> << 0, 5, 0 >>]

\* The 12 endpoints in the order C9 gives them.
C9_Endpoints ==
    << "NR-AR", "NR-AR-LBD", "NR-AhR", "NR-Aromatase", "NR-ER", "NR-ER-LBD",
       "NR-PPAR-gamma", "SR-ARE", "SR-ATAD5", "SR-HSE", "SR-MMP", "SR-p53" >>

\* C9: predict_toxicity returns an error marker or a complete profile,
\* never a partial one: a profile has exactly the 12 endpoints in their
\* fixed order, each with a label and a confidence, and the chart drawn
\* from it has exactly one bar per endpoint in that same order.
C9_ProfileCompleteAndChartInOrder ==
    /\ pc # "predict_toxicity" =>
          \/ IsErrorMarker(toxicity)
          \/ /\ Len(toxicity) = 12
             /\ \A i \in 1 .. 12 :
                   /\ toxicity[i].key = C9_Endpoints[i]
                   /\ toxicity[i].value.t = "dict"
                   /\ toxicity[i].value.prediction \in {"Toxic", "Non-Toxic"}
                   /\ Len(toxicity[i].value.confidence) = 3
    /\ (pc = "plotted" /\ toxicity_plot # None) =>
          /\ Len(toxicity_plot.bars) = 12
          /\ \A i \in 1 .. 12 :
                /\ toxicity_plot.bars[i].x = C9_Endpoints[i]
                /\ toxicity_plot.bars[i].height =
                      ParseFloat(toxicity[i].value.confidence)

\* C9, witness: a complete profile has been returned and its chart drawn,
\* with the 12 bars.
C9_Witness ==
    /\ pc = "plotted"
    /\ IsProfile(toxicity)
    /\ Len(toxicity) = 12
    /\ toxicity_plot # None
    /\ Len(toxicity_plot.bars) = 12
    /\ toxicity_plot.bars[12].x = "SR-p53"

(***************************************************************************)
(* Properties of /analyze (Spec)                                            *)
(***************************************************************************)

\* The request is a JSON object whose SMILES parses into a molecule.
SmilesParses ==
    /\ request.t = "json"
    /\ request.smiles.t = "str"
    /\ request.smiles.s \in ValidSmiles

\* The request is a JSON object whose SMILES is missing, empty or invalid.
SmilesBad == request.t = "json" /\ ~SmilesParses

\* C1: a request whose SMILES is missing, empty or unparseable fails as a
\* whole: the response is an error response, and it carries no
\* descriptors, no toxicity profile and no images.
C1_BadSmilesFailsRequest ==
    (pc = "done" /\ SmilesBad) =>
        /\ response.status >= 400
        /\ "error" \in DOMAIN response.body
        /\ "properties" \in DOMAIN response.body => response.body.properties = None
        /\ "toxicity" \in DOMAIN response.body => ~IsProfile(response.body.toxicity)
        /\ "molecule_image" \in DOMAIN response.body =>
               response.body.molecule_image = None

\* C2: with a parseable SMILES the response is a success whatever stages
\* failed; each failed stage's field is null or an error marker, and each
\* stage that did not fail has its field populated.
C2_EachStageReportedInItsField ==
    (pc = "done" /\ SmilesParses) =>
        /\ response.status = 200
        /\ {"properties", "toxicity", "molecule_image", "molecule_image_2d",
            "toxicity_plot", "gemini_response"} \subseteq DOMAIN response.body
        /\ ("descriptors" \in failed) <=> (response.body.properties = None)
        /\ ("toxicity" \in failed) <=> IsErrorMarker(response.body.toxicity)
        /\ ("toxicity" \notin failed) <=> IsProfile(response.body.toxicity)
        /\ ("image" \in failed) <=> (response.body.molecule_image = None)
        /\ ("image_2d" \in failed) <=> (response.body.molecule_image_2d = None)
        /\ ("chart" \in failed) <=> (response.body.toxicity_plot = None)
        /\ ("explanation" \in failed) <=> (response.body.gemini_response.s = "Error")
        /\ (gemini_calls = 1 /\ "explanation" \notin failed) =>
               response.body.gemini_response.s = "answer"

\* C5: a success response has the six fields properties, toxicity,
\* molecule_image, molecule_image_2d, toxicity_plot and
\* explanation_response, each holding what its stage computed.
C5_SixFieldsInResponse ==
    (pc = "done" /\ response.status = 200) =>
        /\ DOMAIN response.body =
              {"properties", "toxicity", "molecule_image", "molecule_image_2d",
               "toxicity_plot", "explanation_response"}
        /\ response.body.properties = properties
        /\ response.body.toxicity = toxicity
        /\ response.body.molecule_image = image_base64
        /\ response.body.molecule_image_2d = molecule_image_2d
        /\ response.body.toxicity_plot = toxicity_plot
        /\ response.body.explanation_response = gemini_response

\* The request carries a question: a prompt that is a non-empty string.
QuestionSupplied ==
    /\ request.t = "json"
    /\ request.prompt.t = "str"
    /\ request.prompt.s # ""

C7_State ==
    /\ gemini_calls <= 1
    /\ pc \notin {"respond", "done"} => gemini_calls = 0
    /\ (pc \in {"respond", "done"} /\ request.t = "json") =>
          /\ (gemini_calls = 1) <=> QuestionSupplied
          /\ gemini_calls = 0 => gemini_response = Str("")
          /\ gemini_calls = 1 => gemini_response.s \in {"answer", "Error"}
          /\ ("explanation" \in failed) <=> (gemini_response.s = "Error")
    /\ (pc = "done" /\ request.t = "json") =>
          /\ response.status = 200
          /\ response.body.gemini_response = gemini_response
          /\ response.body.properties = properties
          /\ response.body.toxicity = toxicity
          /\ response.body.molecule_image = image_base64

\* C7: the language-model service is queried exactly when a non-empty
\* question is supplied, and at most once; unqueried, the explanation is
\* empty; when the query fails the explanation is an error string, the
\* request still succeeds, and the query step leaves the properties, the
\* toxicity and the images as the earlier stages computed them.
C7_ExplanationOnlyOnQuestion ==
    /\ []C7_State
    /\ [][pc = "gemini" =>
             UNCHANGED << properties, toxicity, image_base64,
                          molecule_image_2d, toxicity_plot >>]_vars

\* C7, witness: a request with a question whose query failed has been
\* answered with success, the error string and the other fields populated.
C7_Witness ==
    /\ pc = "done"
    /\ QuestionSupplied
    /\ gemini_calls = 1
    /\ "explanation" \in failed
    /\ response.status = 200
    /\ response.body.gemini_response.s = "Error"
    /\ response.body.properties # None
    /\ IsProfile(response.body.toxicity)
    /\ response.body.molecule_image # None

\* C10: a request whose SMILES parses goes through Parsing, Building3D,
\* ComputingDescriptors, ClassifyingToxicity, Rendering, Assembling and
\* Done in this order, entering each exactly once.
C10_StagesInOrder ==
    (pc = "done" /\ SmilesParses) =>
        stages = << "Parsing", "Building3D", "ComputingDescriptors",
                    "ClassifyingToxicity", "Rendering", "Assembling", "Done" >>

(***************************************************************************)
(* /convert and convert_smiles_to_mol (SpecConvert)                         *)
(***************************************************************************)

\* Mutant of convert_error: the error is returned without its status.
convert_error_ok(message) == Response(200, [error |-> Str(message)])

\* except Exception as e: return jsonify({"error": str(e)}), 500
convert_error(message) == Response(500, [error |-> Str(message)])

\* return jsonify({"message": ..., "mol_block": mol_block})
convert_success(mol_block) ==
    Response(200, [message   |-> Str("Molecule MOL file created successfully."),
                   mol_block |-> mol_block])

\* MolToMolBlock(mol, includeStereo=True): the text of the structure.
MolToMolBlock(m) == [t |-> "str", s |-> "MolBlock", of |-> m]

\* An RDKit call and what it gave, added to the history.
Log(fn, result) == rdkit_calls' = Append(rdkit_calls, << fn, result >>)

\* An exception inside convert_smiles_to_mol: it is raised again as a
\* ValueError, which convert answers with its error response.
ConvertRaise ==
    /\ response' = convert_error("Molecule conversion failed")
    /\ pc' = "done"
    /\ UNCHANGED mol

ConvertInit ==
    /\ pc = "convert"
    /\ request \in Requests
    /\ predictions = << >>
    /\ Unassigned
    /\ NoPlotting

\* data = request.get_json(); smiles = data.get("smiles");
\* if not smiles: return jsonify({"error": ...}), 400
ConvertGetJson ==
    /\ pc = "convert"
    /\ IF request = NoJson
       THEN /\ \E status \in {400, 415, 500} :
                  response' = Response(status, [error |-> Str("Bad Request")])
            /\ pc' = "done"
            /\ UNCHANGED smiles
       ELSE /\ smiles' = DataGet(request.smiles, None)
            /\ IF Truthy(DataGet(request.smiles, None))
               THEN /\ pc' = "MolFromSmiles"
                    /\ UNCHANGED response
               ELSE /\ response' = Response(400, [error |-> Str("No SMILES string provided")])
                    /\ pc' = "done"
    /\ UNCHANGED << request, prompt, properties, prop_explanation, predictions,
                    toxicity, tox_explanation, image_base64, molecule_image_2d,
                    toxicity_plot, gemini_response, history, mol, rdkit_calls,
                    plotting >>

\* mol = Chem.MolFromSmiles(smiles); if mol is None: raise ValueError(...)
ConvertMolFromSmiles ==
    /\ pc = "MolFromSmiles"
    /\ LET m == MolFromSmiles(smiles)
       IN  IF m.t = "Mol"
           THEN /\ mol' = m
                /\ Log("MolFromSmiles", "Mol")
                /\ pc' = "AddHs"
                /\ UNCHANGED response
           ELSE /\ Log("MolFromSmiles", m.t)
                /\ ConvertRaise
    /\ UNCHANGED << request, locals, history, plotting >>

\* mol = Chem.AddHs(mol, addCoords=True)
ConvertAddHs ==
    /\ pc = "AddHs"
    /\ \/ /\ mol' = [mol EXCEPT !.smiles = "H:" \o @]
          /\ Log("AddHs", "ok")
          /\ pc' = "EmbedMolecule"
          /\ UNCHANGED response
       \/ /\ Log("AddHs", "raise")
          /\ ConvertRaise
    /\ UNCHANGED << request, locals, history, plotting >>

\* AllChem.EmbedMolecule(mol, AllChem.ETKDG()): the conformer's id 0, or -1
\* and no conformer when no embedding is found; the result is not read.
ConvertEmbedMolecule ==
    /\ pc = "EmbedMolecule"
    /\ \/ /\ mol' = [mol EXCEPT !.conformers = 1]
          /\ Log("EmbedMolecule", "0")
          /\ pc' = "UFFOptimizeMolecule"
          /\ UNCHANGED response
       \/ /\ Log("EmbedMolecule", "-1")
          /\ pc' = "UFFOptimizeMolecule"
          /\ UNCHANGED << mol, response >>
       \/ /\ Log("EmbedMolecule", "raise")
          /\ ConvertRaise
    /\ UNCHANGED << request, locals, history, plotting >>

\* AllChem.UFFOptimizeMolecule(mol): raises ValueError (Bad Conformer Id)
\* on a molecule without conformer; else returns 0 when the minimization
\* converged and 1 when it needs more iterations; the result is not read.
ConvertUFFOptimizeMolecule ==
    /\ pc = "UFFOptimizeMolecule"
    /\ IF mol.conformers = 0
       THEN /\ Log("UFFOptimizeMolecule", "raise")
            /\ ConvertRaise
       ELSE \/ \E rc \in {"0", "1"} :
                  /\ Log("UFFOptimizeMolecule", rc)
                  /\ pc' = "SanitizeMol"
                  /\ UNCHANGED << mol, response >>
            \/ /\ Log("UFFOptimizeMolecule", "raise")
               /\ ConvertRaise
    /\ UNCHANGED << request, locals, history, plotting >>

\* Chem.SanitizeMol(mol)
ConvertSanitizeMol ==
    /\ pc = "SanitizeMol"
    /\ \/ /\ Log("SanitizeMol", "ok")
          /\ pc' = "MolToMolBlock"
          /\ UNCHANGED << mol, response >>
       \/ /\ Log("SanitizeMol", "raise")
          /\ ConvertRaise
    /\ UNCHANGED << request, locals, history, plotting >>

\* mol_block = MolToMolBlock(mol, includeStereo=True); return mol_block;
\* and convert's return of the success response.
ConvertMolToMolBlock ==
    /\ pc = "MolToMolBlock"
    /\ \/ /\ Log("MolToMolBlock", "ok")
          /\ response' = convert_success(MolToMolBlock(mol))
          /\ pc' = "done"
          /\ UNCHANGED mol
       \/ /\ Log("MolToMolBlock", "raise")
          /\ ConvertRaise
    /\ UNCHANGED << request, locals, history, plotting >>

ConvertNext ==
    \/ ConvertGetJson
    \/ ConvertMolFromSmiles
    \/ ConvertAddHs
    \/ ConvertEmbedMolecule
    \/ ConvertUFFOptimizeMolecule
    \/ ConvertSanitizeMol
    \/ ConvertMolToMolBlock

SpecConvert == ConvertInit /\ [][ConvertNext]_vars

(***************************************************************************)
(* Properties of /convert (SpecConvert)                                     *)
(***************************************************************************)

Called(fn, result) ==
    \E i \in 1 .. Len(rdkit_calls) : rdkit_calls[i] = << fn, result >>

\* C4: /convert returns the structure, with the success message, only when
\* parsing, hydrogen addition, embedding, optimization and re-validation
\* all completed; with a missing or invalid SMILES, or when no embedding is
\* found, the response is an error message with a non-success status and
\* no structure text.
C4_StructureOnlyAfterFullBuild ==
    pc = "done" =>
        /\ "mol_block" \in DOMAIN response.body =>
              /\ response.status = 200
              /\ "message" \in DOMAIN response.body
              /\ "error" \notin DOMAIN response.body
              /\ response.body.mol_block.t = "str"
              /\ Called("MolFromSmiles", "Mol")
              /\ Called("AddHs", "ok")
              /\ Called("EmbedMolecule", "0")
              /\ Called("UFFOptimizeMolecule", "0") \/ Called("UFFOptimizeMolecule", "1")
              /\ Called("SanitizeMol", "ok")
        /\ (~SmilesParses \/ Called("EmbedMolecule", "-1")) =>
              /\ response.status >= 400
              /\ "error" \in DOMAIN response.body
              /\ DOMAIN response.body = {"error"}

\* C4, witness: the embedding of a parseable SMILES found no conformer and
\* the request has been answered with the error and no structure.
C4_Witness ==
    /\ pc = "done"
    /\ SmilesParses
    /\ Called("EmbedMolecule", "-1")
    /\ response.status = 500
    /\ DOMAIN response.body = {"error"}

\* C6: when the optimization does not converge the build does not fail,
\* the geometry is returned, and the result flags optimization_converged
\* = false; it flags true only when the optimization converged.
C6_ConvergenceFlagged ==
    (/\ pc = "done"
     /\ Called("UFFOptimizeMolecule", "0") \/ Called("UFFOptimizeMolecule", "1")
     /\ Called("SanitizeMol", "ok")
     /\ Called("MolToMolBlock", "ok")) =>
        /\ response.status = 200
        /\ "mol_block" \in DOMAIN response.body
        /\ "optimization_converged" \in DOMAIN response.body
        /\ response.body.optimization_converged = Called("UFFOptimizeMolecule", "0")

(***************************************************************************)
(* generate_toxicity_plot in concurrent requests (SpecPlot)                 *)
(***************************************************************************)

\* The classifier's outputs of the requests that draw at the same time.
PlotPredictions ==
    { [i \in 1 .. NumTasks |-> p] : p \in {0, One} }

PlotInit ==
    /\ pc = "serving"
    /\ request = NoJson
    /\ predictions = << >>
    /\ Unassigned
    /\ pyplot = EmptyPyplot
    /\ \E preds \in [Threads -> PlotPredictions] :
          threads = [t \in Threads |->
                        [pc               |-> "confidences",
                         toxicity_results |-> predict_toxicity(preds[t], NumTasks + 1)[1],
                         bars             |-> << >>,
                         chart            |-> None]]

Quiet == UNCHANGED << pc, request, locals, response, history, mol, rdkit_calls >>

\* endpoints = list(toxicity_results.keys()); confidences = [...]
PlotConfidences(t) ==
    /\ threads[t].pc = "confidences"
    /\ threads' =
          IF ConfidencesRaise(threads[t].toxicity_results)
          THEN [threads EXCEPT ![t].pc = "returned"]
          ELSE [threads EXCEPT ![t].pc = "figure",
                               ![t].bars = BarsOf(threads[t].toxicity_results)]
    /\ UNCHANGED pyplot
    /\ Quiet

\* plt.figure(figsize=(12, 6))
PlotFigure(t) ==
    /\ threads[t].pc = "figure"
    /\ pyplot' = plt_figure(pyplot)
    /\ threads' = [threads EXCEPT ![t].pc = "bar"]
    /\ Quiet

\* bars = plt.bar(endpoints, confidences, color='#4CAF50')
PlotBar(t) ==
    /\ threads[t].pc = "bar"
    /\ pyplot' = plt_bar(pyplot, threads[t].bars)
    /\ threads' = [threads EXCEPT ![t].pc = "text"]
    /\ Quiet

\* for bar in bars: plt.text(..., f'{height:.2f}', ...)
PlotText(t) ==
    /\ threads[t].pc = "text"
    /\ pyplot' = plt_text(pyplot, TextsOf(threads[t].bars))
    /\ threads' = [threads EXCEPT ![t].pc = "axes"]
    /\ Quiet

\* plt.xticks ... plt.tight_layout(): on the current figure, made if none.
PlotAxes(t) ==
    /\ threads[t].pc = "axes"
    /\ pyplot' = plt_gcf(pyplot)
    /\ threads' = [threads EXCEPT ![t].pc = "savefig"]
    /\ Quiet

\* plt.savefig(buf, ...)
PlotSavefig(t) ==
    /\ threads[t].pc = "savefig"
    /\ pyplot' = plt_gcf(pyplot)
    /\ threads' = [threads EXCEPT ![t].pc = "close", ![t].chart = SavedImage(pyplot)]
    /\ Quiet

\* plt.close(); return base64.b64encode(buf.read()).decode('utf-8')
PlotClose(t) ==
    /\ threads[t].pc = "close"
    /\ pyplot' = plt_close(pyplot)
    /\ threads' = [threads EXCEPT ![t].pc = "returned"]
    /\ Quiet

PlotNext ==
    \E t \in Threads :
        \/ PlotConfidences(t)
        \/ PlotFigure(t)
        \/ PlotBar(t)
        \/ PlotText(t)
        \/ PlotAxes(t)
        \/ PlotSavefig(t)
        \/ PlotClose(t)

SpecPlot == PlotInit /\ [][PlotNext]_vars

\* C8: when requests run generate_toxicity_plot at the same time, under
\* every interleaving each call's chart holds exactly the bars and labels
\* of its own toxicity profile.
C8_ChartHasOwnBarsOnly ==
    \A t \in Threads :
        threads[t].pc = "returned" =>
            /\ threads[t].chart # None
            /\ threads[t].chart.bars = BarsOf(threads[t].toxicity_results)
            /\ threads[t].chart.texts = TextsOf(BarsOf(threads[t].toxicity_results))

=============================================================================
